---- MODULE Spec2Model ----
(***************************************************************************)
(* Model of frontend/src/App.jsx: the Kakao SDK loader hook                *)
(* (useKakaoLoader), the MapPicker component and the App controller with   *)
(* its recommendation request.                                             *)
(*                                                                         *)
(* JavaScript strings are modelled as sequences of tokens, so that         *)
(* trim(), includes(), String(e) and concatenation are computed.           *)
(***************************************************************************)
EXTENDS Integers, Naturals, Sequences, FiniteSets, TLC

\* ------------------------------------------------------------------ bounds
\* Loader consumers (useKakaoLoader instances) of the concurrency harness.
NumConsumers == 3
\* Submissions issued in one behaviour.
MaxSubmits == 2
\* Clicks dispatched by the map surfaces in one behaviour.
MaxClicks == 2

Consumers == 1 .. NumConsumers
\* App renders a single <MapPicker/>: the one loader consumer of the program.
AppPickers == {1}

\* ------------------------------------------------------------------ values
\* A nullable value is the empty tuple (null) or a one-element tuple holding
\* the value, so that null differs from every value, the empty string included.
NULL == <<>>
Some(v) == <<v>>
Val(x) == x[1]

KeyMissingMsg == "KAKAO_JS_KEY is not set"
LoadFailedMsg == "Failed to load Kakao Maps"

\* new kakao.maps.LatLng(37.5665, 126.978), in units of 1e-4 degree
Center == [lat |-> 375665, lng |-> 1269780]
\* coordinates a click can carry
Points == {Center, [lat |-> 0, lng |-> 0]}

\* values Number(e.target.value) yields for the distance input
Distances == {-1, 0, 5}
\* values of the theme input: the default, the empty string, blanks only,
\* a padded word
DefaultTheme == <<"c", "a">>
Themes == {DefaultTheme, <<>>, <<" ">>, <<" ", "c", " ">>}

Marker == <<"OPEN_MAP_AND_LOCAL">>
GuidanceMsg == <<"Kakao Local API disabled; enable ", "OPEN_MAP_AND_LOCAL", " in the console">>
\* plain-text bodies of a non-2xx answer
Bodies == {<<>>, <<"boom">>, <<"{code:", "OPEN_MAP_AND_LOCAL", "}">>}
\* JSON bodies of a 2xx answer
PlaceResult == [selected_place |-> Some("Cafe X"), candidates_considered |-> 4]
NoPlaceResult == [selected_place |-> NULL, candidates_considered |-> 0]
Results == {PlaceResult, NoPlaceResult}

Responses ==
    [kind : {"ok"}, data : Results]
    \cup [kind : {"http"}, body : Bodies]
    \cup {[kind |-> "network"], [kind |-> "badjson"]}

VARIABLES
    \* environment
    kakaoJsKey,     \* KAKAO_JS_KEY is set
    backendUrl,     \* BACKEND_URL is set
    kakao,          \* window.kakao: "absent", "sdk" (maps.load, no Map), "ready" (maps.Map)
    \* useKakaoLoader, per consumer
    phase,          \* "new", "mounted", "torn"
    loaded,
    loaderError,
    poll,           \* a setTimeout(checkLoaded, 100) is pending
    script,         \* the script element the consumer created: "none", "loading", "loaded", "errored"
    inDoc,          \* that element is a child of document.head
    pendingCb,      \* kakao.maps.load(cb) was called and cb has not run
    \* MapPicker, per consumer
    maps,           \* map surfaces created
    listeners,      \* click listeners registered
    marker,         \* marker position
    coords,
    depLoaded,      \* the value of `loaded` the setup effect last ran with
    \* App
    lat,
    lng,
    distanceKm,
    theme,
    loading,
    result,
    error,
    fetches,        \* outstanding fetch() calls: the request bodies
    submitCalls,    \* invocations of submit() so far
    \* event logs
    clicks,         \* the coordinates of the click events the maps dispatched, in order
    picks           \* the coordinates onPick was called with, in order

envVars == <<kakaoJsKey, backendUrl>>
loaderVars == <<kakao, phase, loaded, loaderError, poll, script, inDoc, pendingCb>>
pickerVars == <<maps, listeners, marker, coords, depLoaded>>
selVars == <<distanceKm, theme>>
reqVars == <<loading, result, error, fetches, submitCalls>>
logVars == <<clicks, picks>>
vars == <<envVars, loaderVars, pickerVars, lat, lng, selVars, reqVars, logVars>>

\* ------------------------------------------------------------------ strings
\* String.prototype.includes
Includes(s, sub) ==
    \E i \in 1 .. (Len(s) - Len(sub) + 1) : SubSeq(s, i, i + Len(sub) - 1) = sub

RECURSIVE TrimStart(_)
TrimStart(s) ==
    IF s # <<>> /\ Head(s) = " " THEN TrimStart(Tail(s)) ELSE s

RECURSIVE TrimEnd(_)
TrimEnd(s) ==
    IF s # <<>> /\ s[Len(s)] = " " THEN TrimEnd(SubSeq(s, 1, Len(s) - 1)) ELSE s

\* String.prototype.trim
Trim(s) == TrimEnd(TrimStart(s))

\* String(e) for an Error-like object: name, then ": " and the message if any
ErrorToString(name, msg) ==
    IF msg = <<>> THEN <<name>> ELSE <<name, ": ">> \o msg

\* ------------------------------------------------------------------ Init
Init ==
    /\ kakaoJsKey \in BOOLEAN
    /\ backendUrl \in BOOLEAN
    /\ kakao \in {"absent", "ready"}
    /\ phase = [c \in Consumers |-> "new"]
    /\ loaded = [c \in Consumers |-> FALSE]
    /\ loaderError = [c \in Consumers |-> NULL]
    /\ poll = [c \in Consumers |-> FALSE]
    /\ script = [c \in Consumers |-> "none"]
    /\ inDoc = [c \in Consumers |-> FALSE]
    /\ pendingCb = [c \in Consumers |-> FALSE]
    /\ maps = [c \in Consumers |-> 0]
    /\ listeners = [c \in Consumers |-> 0]
    /\ marker = [c \in Consumers |-> NULL]
    /\ coords = [c \in Consumers |-> NULL]
    /\ depLoaded = [c \in Consumers |-> FALSE]
    /\ lat = NULL
    /\ lng = NULL
    /\ distanceKm = 5
    /\ theme = DefaultTheme
    /\ loading = FALSE
    /\ result = NULL
    /\ error = NULL
    /\ fetches = <<>>
    /\ submitCalls = 0
    /\ clicks = <<>>
    /\ picks = <<>>

\* ------------------------------------------------------------------ useKakaoLoader
\* window.kakao && window.kakao.maps && window.kakao.maps.Map
HasMap(k) == k = "ready"
\* window.kakao && window.kakao.maps && window.kakao.maps.load
HasLoad(k) == k \in {"sdk", "ready"}

\* document.querySelector('script[src*="dapi.kakao.com"]')
ExistingScript == \E d \in Consumers : inDoc[d]

\* number of script tags appended to document.head so far
ScriptsInserted == Cardinality({c \in Consumers : script[c] # "none"})

\* checkLoaded(), with window.kakao in state k
checkLoaded(c, k) ==
    IF HasMap(k)
    THEN /\ loaded' = [loaded EXCEPT ![c] = TRUE]
         /\ poll' = [poll EXCEPT ![c] = FALSE]
    ELSE /\ poll' = [poll EXCEPT ![c] = TRUE]
         /\ UNCHANGED loaded

\* Variant of the mount effect that does not look for a script tag already
\* in the document.
MountEffectNoScan(c) ==
    IF ~kakaoJsKey
    THEN /\ loaderError' = [loaderError EXCEPT ![c] = Some(KeyMissingMsg)]
         /\ UNCHANGED <<loaded, poll, script, inDoc>>
    ELSE IF HasMap(kakao)
    THEN /\ loaded' = [loaded EXCEPT ![c] = TRUE]
         /\ UNCHANGED <<loaderError, poll, script, inDoc>>
    ELSE /\ script' = [script EXCEPT ![c] = "loading"]
         /\ inDoc' = [inDoc EXCEPT ![c] = TRUE]
         /\ UNCHANGED <<loaded, loaderError, poll>>

\* Variant of the mount effect without the test for a library that is
\* already there.
MountEffectNoLibraryTest(c) ==
    IF ~kakaoJsKey
    THEN /\ loaderError' = [loaderError EXCEPT ![c] = Some(KeyMissingMsg)]
         /\ UNCHANGED <<loaded, poll, script, inDoc>>
    ELSE IF ExistingScript
    THEN /\ checkLoaded(c, kakao)
         /\ UNCHANGED <<loaderError, script, inDoc>>
    ELSE /\ script' = [script EXCEPT ![c] = "loading"]
         /\ inDoc' = [inDoc EXCEPT ![c] = TRUE]
         /\ UNCHANGED <<loaded, loaderError, poll>>

\* Variant of the mount effect that tests for the library before the key.
MountEffectLibraryFirst(c) ==
    IF HasMap(kakao)
    THEN /\ loaded' = [loaded EXCEPT ![c] = TRUE]
         /\ UNCHANGED <<loaderError, poll, script, inDoc>>
    ELSE IF ~kakaoJsKey
    THEN /\ loaderError' = [loaderError EXCEPT ![c] = Some(KeyMissingMsg)]
         /\ UNCHANGED <<loaded, poll, script, inDoc>>
    ELSE IF ExistingScript
    THEN /\ checkLoaded(c, kakao)
         /\ UNCHANGED <<loaderError, script, inDoc>>
    ELSE /\ script' = [script EXCEPT ![c] = "loading"]
         /\ inDoc' = [inDoc EXCEPT ![c] = TRUE]
         /\ UNCHANGED <<loaded, loaderError, poll>>

\* the body of the mount effect
MountEffect(c) ==
    IF ~kakaoJsKey
    THEN /\ loaderError' = [loaderError EXCEPT ![c] = Some(KeyMissingMsg)]
         /\ UNCHANGED <<loaded, poll, script, inDoc>>
    ELSE IF HasMap(kakao)
    THEN /\ loaded' = [loaded EXCEPT ![c] = TRUE]
         /\ UNCHANGED <<loaderError, poll, script, inDoc>>
    ELSE IF ExistingScript
    THEN /\ checkLoaded(c, kakao)
         /\ UNCHANGED <<loaderError, script, inDoc>>
    ELSE /\ script' = [script EXCEPT ![c] = "loading"]
         /\ inDoc' = [inDoc EXCEPT ![c] = TRUE]
         /\ UNCHANGED <<loaded, loaderError, poll>>

\* A consumer mounts and its effect runs. Consumers are interchangeable, so
\* they mount in the order of their numbers.
Mount(c) ==
    /\ phase[c] = "new"
    /\ \A d \in Consumers : d < c => phase[d] # "new"
    /\ phase' = [phase EXCEPT ![c] = "mounted"]
    /\ MountEffect(c)
    /\ UNCHANGED <<logVars, envVars, kakao, pendingCb, pickerVars, lat, lng, selVars, reqVars>>

\* The effect's cleanup: only the consumer that appended a script returns one.
Cleanup(c) ==
    IF script[c] # "none" /\ inDoc[c]
    THEN inDoc' = [inDoc EXCEPT ![c] = FALSE]
    ELSE UNCHANGED inDoc

\* Variant of the teardown that also resets the consumer's status.
UnmountResetsStatus(c) ==
    /\ phase[c] = "mounted"
    /\ phase' = [phase EXCEPT ![c] = "torn"]
    /\ Cleanup(c)
    /\ loaded' = [loaded EXCEPT ![c] = FALSE]
    /\ loaderError' = [loaderError EXCEPT ![c] = NULL]
    /\ UNCHANGED <<logVars, envVars, kakao, poll, script, pendingCb,
                   pickerVars, lat, lng, selVars, reqVars>>

Unmount(c) ==
    /\ phase[c] = "mounted"
    /\ phase' = [phase EXCEPT ![c] = "torn"]
    /\ Cleanup(c)
    /\ UNCHANGED <<logVars, envVars, kakao, loaded, loaderError, poll, script, pendingCb,
                   pickerVars, lat, lng, selVars, reqVars>>

\* script.onload, after the fetched script ran and left window.kakao as k
onload(c, k) ==
    IF HasLoad(k)
    THEN /\ pendingCb' = [pendingCb EXCEPT ![c] = TRUE]
         /\ UNCHANGED <<loaded, poll>>
    ELSE /\ checkLoaded(c, k)
         /\ UNCHANGED pendingCb

\* The browser finishes loading a script element. A script removed from the
\* document after its fetch started still runs and still fires load. The
\* SDK script normally defines kakao.maps.load; a script that does not is
\* what the handler's fallback branch is for.
ScriptLoad(c) ==
    /\ script[c] = "loading"
    /\ \E definesLoad \in BOOLEAN :
        LET k == IF kakao = "absent" /\ definesLoad THEN "sdk" ELSE kakao
        IN /\ kakao' = k
           /\ onload(c, k)
    /\ script' = [script EXCEPT ![c] = "loaded"]
    /\ UNCHANGED <<logVars, envVars, phase, loaderError, inDoc, pickerVars, lat, lng, selVars, reqVars>>

\* script.onerror
onerror(c) ==
    loaderError' = [loaderError EXCEPT ![c] = Some(LoadFailedMsg)]

ScriptError(c) ==
    /\ script[c] = "loading"
    /\ script' = [script EXCEPT ![c] = "errored"]
    /\ onerror(c)
    /\ UNCHANGED <<logVars, envVars, kakao, phase, loaded, poll, inDoc, pendingCb,
                   pickerVars, lat, lng, selVars, reqVars>>

\* kakao.maps.load finishes: kakao.maps.Map exists and the callback runs
MapsLoadCallback(c) ==
    /\ pendingCb[c]
    /\ kakao' = "ready"
    /\ pendingCb' = [pendingCb EXCEPT ![c] = FALSE]
    /\ loaded' = [loaded EXCEPT ![c] = TRUE]
    /\ UNCHANGED <<logVars, envVars, phase, loaderError, poll, script, inDoc,
                   pickerVars, lat, lng, selVars, reqVars>>

\* a pending setTimeout(checkLoaded, 100) fires
PollTick(c) ==
    /\ poll[c]
    /\ checkLoaded(c, kakao)
    /\ UNCHANGED <<logVars, envVars, kakao, phase, loaderError, script, inDoc, pendingCb,
                   pickerVars, lat, lng, selVars, reqVars>>

\* ------------------------------------------------------------------ MapPicker
\* ref.current: the container div is rendered only when there is no error
\* and loaded is true
RefCurrent(c) == loaderError[c] = NULL /\ loaded[c]

\* the body of the setup effect
MapEffect(c) ==
    IF ~loaded[c] \/ ~RefCurrent(c)
    THEN UNCHANGED <<maps, listeners, marker>>
    ELSE /\ maps' = [maps EXCEPT ![c] = @ + 1]
         /\ marker' = [marker EXCEPT ![c] = Some(Center)]
         /\ listeners' = [listeners EXCEPT ![c] = @ + 1]

\* Variant of the effect without a dependency list: it runs after every
\* render of a loaded picker.
EffectDueEveryRender(c) == loaded[c]

\* the effect's dependency [loaded, onPick] changed since its last run
\* (onPick is a useCallback with no dependencies and never changes)
EffectDue(c) == loaded[c] # depLoaded[c]

\* Variant of the setup that builds the map as soon as the picker is
\* mounted, without waiting for the loader.
InitMapOnMount(c) ==
    /\ phase[c] = "mounted"
    /\ maps[c] = 0
    /\ maps' = [maps EXCEPT ![c] = @ + 1]
    /\ marker' = [marker EXCEPT ![c] = Some(Center)]
    /\ listeners' = [listeners EXCEPT ![c] = @ + 1]
    /\ UNCHANGED <<logVars, envVars, loaderVars, coords, depLoaded, lat, lng, selVars, reqVars>>

InitMap(c) ==
    /\ phase[c] = "mounted"
    /\ EffectDue(c)
    /\ depLoaded' = [depLoaded EXCEPT ![c] = loaded[c]]
    /\ MapEffect(c)
    /\ UNCHANGED <<logVars, envVars, loaderVars, coords, lat, lng, selVars, reqVars>>

\* App.onPick
onPick(la, ln) ==
    /\ lat' = Some(la)
    /\ lng' = Some(ln)

\* Variant of the click handling that reports a coordinate only when it
\* differs from the one shown.
ClickSkipsRepeated(c, p) ==
    /\ phase[c] = "mounted"
    /\ listeners[c] > 0
    /\ Len(clicks) < MaxClicks
    /\ clicks' = Append(clicks, p)
    /\ marker' = [marker EXCEPT ![c] = Some(p)]
    /\ IF coords[c] = Some(p)
       THEN UNCHANGED <<coords, lat, lng, picks>>
       ELSE /\ coords' = [coords EXCEPT ![c] = Some(p)]
            /\ onPick(p.lat, p.lng)
            /\ picks' = picks \o [k \in 1 .. listeners[c] |-> p]
    /\ UNCHANGED <<envVars, loaderVars, maps, listeners, depLoaded, selVars, reqVars>>

\* The map surface of a mounted picker dispatches a click at p: every
\* registered listener moves the marker, sets coords and calls onPick.
Click(c, p) ==
    /\ phase[c] = "mounted"
    /\ listeners[c] > 0
    /\ Len(clicks) < MaxClicks
    /\ clicks' = Append(clicks, p)
    /\ marker' = [marker EXCEPT ![c] = Some(p)]
    /\ coords' = [coords EXCEPT ![c] = Some(p)]
    /\ onPick(p.lat, p.lng)
    /\ picks' = picks \o [k \in 1 .. listeners[c] |-> p]
    /\ UNCHANGED <<envVars, loaderVars, maps, listeners, depLoaded, selVars, reqVars>>

\* ------------------------------------------------------------------ App
\* Variant of canSubmit that tests the coordinate for truthiness.
canSubmitTruthy ==
    /\ lat # NULL /\ Val(lat) # 0
    /\ lng # NULL /\ Val(lng) # 0
    /\ distanceKm > 0
    /\ Len(Trim(theme)) > 0

canSubmit ==
    lat # NULL /\ lng # NULL /\ distanceKm > 0 /\ Len(Trim(theme)) > 0

\* Variant of the button that stays enabled while a request is pending.
ButtonDisabledIgnoresLoading == ~canSubmit

\* <button disabled={!canSubmit || loading}>
ButtonDisabled == ~canSubmit \/ loading

\* onChange of the distance input
SetDistance(d) ==
    /\ distanceKm' = d
    /\ UNCHANGED <<logVars, envVars, loaderVars, pickerVars, lat, lng, theme, reqVars>>

\* onChange of the theme input
SetTheme(t) ==
    /\ theme' = t
    /\ UNCHANGED <<logVars, envVars, loaderVars, pickerVars, lat, lng, distanceKm, reqVars>>

\* Variant of the request body that sends the trimmed theme.
RequestBodyTrimmed ==
    [start_lat |-> Val(lat), start_lng |-> Val(lng), distance_km |-> distanceKm,
     theme_keyword |-> Trim(theme)]

\* JSON.stringify({start_lat, start_lng, distance_km, theme_keyword})
RequestBody ==
    [start_lat |-> Val(lat), start_lng |-> Val(lng), distance_km |-> distanceKm, theme_keyword |-> theme]

\* Variant of submit() that does not test BACKEND_URL.
SubmitNoUrlCheck ==
    IF ~canSubmit
    THEN UNCHANGED <<loading, error, result, fetches>>
    ELSE /\ loading' = TRUE
         /\ error' = NULL
         /\ result' = NULL
         /\ fetches' = Append(fetches, RequestBody)

\* Variant of submit() that keeps the previous result and error.
SubmitKeepsPrior ==
    IF ~canSubmit \/ ~backendUrl
    THEN UNCHANGED <<loading, error, result, fetches>>
    ELSE /\ loading' = TRUE
         /\ UNCHANGED <<error, result>>
         /\ fetches' = Append(fetches, RequestBody)

\* submit(), up to the awaited fetch
submit ==
    IF ~canSubmit \/ ~backendUrl
    THEN UNCHANGED <<loading, error, result, fetches>>
    ELSE /\ loading' = TRUE
         /\ error' = NULL
         /\ result' = NULL
         /\ fetches' = Append(fetches, RequestBody)

\* a click on the button: a disabled button dispatches no click
ClickSubmit ==
    /\ ~ButtonDisabled
    /\ submitCalls < MaxSubmits
    /\ submitCalls' = submitCalls + 1
    /\ submit
    /\ UNCHANGED <<logVars, envVars, loaderVars, pickerVars, lat, lng, selVars>>

\* what the catch block reads from the thrown value: e.text is undefined on
\* an Error, so String(e)
ErrorText(resp) ==
    CASE resp.kind = "http" -> ErrorToString("Error", resp.body)
      [] resp.kind = "network" -> ErrorToString("TypeError", <<"Failed to fetch">>)
      [] resp.kind = "badjson" -> ErrorToString("SyntaxError", <<"Unexpected token">>)

\* Variant of the classification that compares the whole text with the marker.
ClassifyExact(errorText) ==
    IF errorText = Marker THEN GuidanceMsg ELSE errorText

\* the catch block's choice of message
Classify(errorText) ==
    IF Includes(errorText, Marker) THEN GuidanceMsg ELSE errorText

\* Variant of the continuation that resets loading on the success path only.
SettleNoFinally(resp) ==
    IF resp.kind = "ok"
    THEN /\ result' = Some(resp.data)
         /\ loading' = FALSE
         /\ UNCHANGED error
    ELSE /\ error' = Some(Classify(ErrorText(resp)))
         /\ UNCHANGED <<result, loading>>

\* submit(), from the resolution of the fetch to the end of finally
Settle(resp) ==
    /\ IF resp.kind = "ok"
       THEN /\ result' = Some(resp.data)
            /\ UNCHANGED error
       ELSE /\ error' = Some(Classify(ErrorText(resp)))
            /\ UNCHANGED result
    /\ loading' = FALSE

Remove(s, i) == SubSeq(s, 1, i - 1) \o SubSeq(s, i + 1, Len(s))

\* outstanding request i resolves with resp
FetchResolve(i, resp) ==
    /\ i \in 1 .. Len(fetches)
    /\ fetches' = Remove(fetches, i)
    /\ Settle(resp)
    /\ UNCHANGED <<logVars, envVars, loaderVars, pickerVars, lat, lng, selVars, submitCalls>>

\* ------------------------------------------------------------------ specifications
\* The program: App with the one MapPicker it renders.
Next ==
    \/ \E c \in AppPickers :
        \/ Mount(c)
        \/ ScriptLoad(c)
        \/ ScriptError(c)
        \/ MapsLoadCallback(c)
        \/ PollTick(c)
        \/ InitMap(c)
        \/ \E p \in Points : Click(c, p)
    \/ \E d \in Distances : SetDistance(d)
    \/ \E t \in Themes : SetTheme(t)
    \/ ClickSubmit
    \/ \E i \in 1 .. MaxSubmits, resp \in Responses : FetchResolve(i, resp)

Spec == Init /\ [][Next]_vars

\* Every outstanding fetch eventually resolves or rejects.
FairSpec == Spec /\ WF_vars(\E i \in 1 .. MaxSubmits, resp \in Responses : FetchResolve(i, resp))

\* Several MapPicker instances mounting and unmounting side by side, sharing
\* document.head and window.kakao.
LoaderNext ==
    \E c \in Consumers :
        \/ Mount(c)
        \/ Unmount(c)
        \/ ScriptLoad(c)
        \/ ScriptError(c)
        \/ MapsLoadCallback(c)
        \/ PollTick(c)
        \/ InitMap(c)
        \/ \E p \in Points : Click(c, p)

LoaderSpec == Init /\ [][LoaderNext]_vars

\* The browser settles every script load, runs every kakao.maps.load
\* callback and fires every scheduled timer.
FairLoaderSpec ==
    /\ LoaderSpec
    /\ \A c \in Consumers :
        /\ WF_vars(ScriptLoad(c) \/ ScriptError(c))
        /\ WF_vars(MapsLoadCallback(c))
        /\ WF_vars(PollTick(c))

\* ------------------------------------------------------------------ derived state
\* what MapPicker renders from {loaded, error}: the error branch comes first
Status(c) ==
    IF loaderError[c] # NULL THEN "Failed"
    ELSE IF loaded[c] THEN "Ready"
    ELSE "Pending"

NoTeardown == \A c \in Consumers : phase[c] # "torn"

\* submit() would start a request
SubmitAccepted == canSubmit /\ backendUrl /\ ~loading

\* ------------------------------------------------------------------ claims

\* C1: while consumers only mount (none has been torn down), whatever the
\* interleaving with the script's load and error callbacks, at most one
\* script tag has been appended, and exactly one as soon as a consumer has
\* mounted with the key set and the library not yet available.
C1_SingleScriptLoad ==
    NoTeardown =>
        /\ ScriptsInserted <= 1
        /\ (kakaoJsKey /\ ~HasMap(kakao) /\ (\E c \in Consumers : phase[c] = "mounted")
                => ScriptsInserted = 1)

C1_Witness ==
    /\ NoTeardown
    /\ ScriptsInserted = 1
    /\ \E a, b \in Consumers :
        /\ a # b
        /\ phase[a] = "mounted" /\ phase[b] = "mounted"
        /\ script[a] = "loading"
        /\ poll[b]

C3_SameTerminalStatus ==
    \A a, b \in Consumers :
        (phase[a] = "mounted" /\ phase[b] = "mounted")
            => ~(Status(a) = "Ready" /\ Status(b) = "Failed")

\* C4: with the key absent every consumer that has mounted is Failed with the
\* key-missing message, no script tag was appended, no poll is pending and
\* no map, marker or listener exists.
C4_MissingKeyShortCircuits ==
    ~kakaoJsKey =>
        /\ ScriptsInserted = 0
        /\ \A c \in Consumers :
            /\ ~poll[c] /\ ~pendingCb[c] /\ ~loaded[c]
            /\ maps[c] = 0 /\ listeners[c] = 0 /\ marker[c] = NULL
            /\ (phase[c] # "new" => loaderError[c] = Some(KeyMissingMsg))

C4_Witness ==
    /\ ~kakaoJsKey
    /\ HasMap(kakao)
    /\ \A c \in Consumers : phase[c] # "new" /\ Status(c) = "Failed"

\* C5: the button is disabled exactly when the coordinate is unset, or
\* distanceKm <= 0, or the theme trims to the empty string, or a request is
\* outstanding.
C5_DisabledIff ==
    ButtonDisabled <=>
        \/ lat = NULL \/ lng = NULL
        \/ distanceKm <= 0
        \/ Trim(theme) = <<>>
        \/ Len(fetches) > 0

C5_Witness ==
    /\ lat = Some(0) /\ lng = Some(0)
    /\ distanceKm > 0 /\ Trim(theme) # <<>>
    /\ submitCalls = 1 /\ fetches = <<>>
    /\ result # NULL
    /\ ~ButtonDisabled

\* C6: at most one fetch is outstanding.
C6_AtMostOneInFlight == Len(fetches) <= 1

C6_Witness == Len(fetches) = 1 /\ submitCalls = 2 /\ loading

\* C7 as stated: a request is issued only from a state where the selection
\* is complete, the backend URL is set and nothing is pending; a submit()
\* call in any other state changes nothing; and in every such other state
\* the button is disabled.
C7_Original ==
    [][/\ (Len(fetches') > Len(fetches) => SubmitAccepted)
       /\ (submitCalls' # submitCalls /\ ~SubmitAccepted
              => UNCHANGED <<loading, error, result, fetches, lat, lng, selVars>>)
       /\ (~SubmitAccepted => ButtonDisabled)]_vars

\* C7 amended: as above, but the button is disabled only for an incomplete
\* selection or a pending request; with only the backend URL missing it
\* stays enabled and the click does nothing.
C7_Amended ==
    [][/\ (Len(fetches') > Len(fetches) => SubmitAccepted)
       /\ (submitCalls' # submitCalls /\ ~SubmitAccepted
              => UNCHANGED <<loading, error, result, fetches, lat, lng, selVars>>)
       /\ (~canSubmit \/ loading => ButtonDisabled)
       /\ (canSubmit /\ ~loading /\ ~backendUrl => ~ButtonDisabled)]_vars

C7_Witness ==
    /\ ~backendUrl
    /\ canSubmit
    /\ submitCalls = MaxSubmits
    /\ ~loading /\ fetches = <<>> /\ error = NULL /\ result = NULL
    /\ ~ButtonDisabled

\* C8: while a request is pending neither a result nor an error is stored.
C8_PendingShowsNothing == loading => (result = NULL /\ error = NULL)

C8_Witness == loading /\ submitCalls = 2 /\ Len(fetches) = 1 /\ result = NULL /\ error = NULL

\* C9: given that every outstanding fetch resolves, a pending submission
\* leads to a state that is not loading and in which a complete selection
\* can be submitted again.
C9_ReturnsToSubmittable ==
    loading ~> (~loading /\ fetches = <<>> /\ (canSubmit => ~ButtonDisabled))

C9_Witness ==
    /\ ~loading /\ fetches = <<>>
    /\ error = Some(ErrorToString("TypeError", <<"Failed to fetch">>))
    /\ canSubmit /\ ~ButtonDisabled

\* C10: a non-2xx answer whose body contains OPEN_MAP_AND_LOCAL leaves the
\* guidance message as the error and no result.
C10_MarkerGivesGuidance ==
    [][\A i \in 1 .. MaxSubmits, b \in Bodies :
          (FetchResolve(i, [kind |-> "http", body |-> b]) /\ Includes(b, Marker))
              => (error' = Some(GuidanceMsg) /\ result' = NULL)]_vars

C10_Witness ==
    /\ error = Some(GuidanceMsg)
    /\ result = NULL
    /\ ~loading /\ fetches = <<>>

\* C11: a non-2xx answer whose body does not contain OPEN_MAP_AND_LOCAL
\* leaves exactly the body text as the error.
C11_RawBodyStored ==
    [][\A i \in 1 .. MaxSubmits, b \in Bodies :
          (FetchResolve(i, [kind |-> "http", body |-> b]) /\ ~Includes(b, Marker))
              => error' = Some(b)]_vars

\* C12: onPick has been called exactly once per dispatched click, with that
\* click's coordinate and in click order, and the selection's coordinate is
\* the last click's.
C12_OnePickPerClick ==
    /\ picks = clicks
    /\ (clicks # <<>> =>
            /\ lat = Some(clicks[Len(clicks)].lat)
            /\ lng = Some(clicks[Len(clicks)].lng))

C12_Witness ==
    /\ Len(clicks) >= 2
    /\ clicks[1] # clicks[2]
    /\ picks = clicks
    /\ lat = Some(clicks[Len(clicks)].lat)

\* C13: a picker holds a map, a marker or a click listener only while its
\* loader status is Ready.
C13_MapOnlyWhenReady ==
    \A c \in Consumers :
        (maps[c] > 0 \/ listeners[c] > 0 \/ marker[c] # NULL) => Status(c) = "Ready"

C13_Witness ==
    \E a, b \in Consumers :
        /\ maps[a] = 1 /\ listeners[a] = 1 /\ marker[a] # NULL /\ Status(a) = "Ready"
        /\ phase[b] = "mounted" /\ Status(b) = "Failed" /\ loaded[b] = FALSE
        /\ maps[b] = 0 /\ listeners[b] = 0

C15_NoUpdateAfterTeardown ==
    [][\A c \in Consumers :
          phase[c] = "torn" =>
              /\ loaded'[c] = loaded[c]
              /\ loaderError'[c] = loaderError[c]
              /\ ~poll'[c]]_vars

\* C16: every consumer that stays mounted eventually has a terminal status,
\* Ready or Failed, with no checkLoaded timer left scheduled.
C16_EveryConsumerSettles ==
    \A c \in Consumers :
        (phase[c] = "mounted")
            ~> (phase[c] = "torn" \/ (Status(c) # "Pending" /\ ~poll[c]))

\* C17: a pick or an edit is possible while a request is pending and
\* updates the selection; the body of a request is the selection as it was
\* when submit() ran, and no pick or edit changes an outstanding body.
C17_SnapshotUnaffectedByEdits ==
    [][/\ (loading /\ \E c \in AppPickers : listeners[c] > 0 /\ Len(clicks) < MaxClicks)
            => (/\ \A d \in Distances : ENABLED SetDistance(d)
                /\ \A t \in Themes : ENABLED SetTheme(t)
                /\ \A p \in Points : \E c \in AppPickers : ENABLED Click(c, p))
       /\ (Len(fetches') > Len(fetches)
            => fetches' = Append(fetches, [start_lat |-> Val(lat), start_lng |-> Val(lng),
                                           distance_km |-> distanceKm, theme_keyword |-> theme]))
       /\ (<<lat, lng, distanceKm, theme>>' # <<lat, lng, distanceKm, theme>>
            => fetches' = fetches)]_vars

C17_Witness ==
    /\ loading
    /\ Len(fetches) = 1
    /\ Some(fetches[1].start_lat) # lat
    /\ fetches[1].distance_km # distanceKm
    /\ fetches[1].theme_keyword # theme

\* C18 as stated: a consumer that mounts while kakao.maps.Map exists leaves
\* its mount effect Ready and appends no script tag, whether or not the key
\* is set.
C18_Original ==
    [][\A c \in Consumers :
          (Mount(c) /\ HasMap(kakao))
              => (loaded'[c] /\ loaderError'[c] = NULL /\ script' = script)]_vars

\* C18 amended: such a consumer appends no script tag and starts no poll;
\* it leaves its mount effect Ready when the key is set, and Failed with the
\* key-missing message when it is not.
C18_Amended ==
    [][\A c \in Consumers :
          (Mount(c) /\ HasMap(kakao))
              => /\ script' = script /\ inDoc' = inDoc /\ poll' = poll
                 /\ IF kakaoJsKey
                    THEN loaded'[c] /\ loaderError'[c] = NULL
                    ELSE ~loaded'[c] /\ loaderError'[c] = Some(KeyMissingMsg)]_vars

C18_Witness ==
    /\ kakaoJsKey
    /\ HasMap(kakao)
    /\ ScriptsInserted = 0
    /\ \A c \in Consumers : phase[c] = "mounted" /\ Status(c) = "Ready" /\ ~poll[c]

\* C19: a result and an error are never stored together, and once a
\* submission has resolved and none is pending exactly one of them is set.
C19_ResultXorError ==
    /\ ~(result # NULL /\ error # NULL)
    /\ (submitCalls > 0 /\ backendUrl /\ ~loading => (result # NULL) # (error # NULL))

C19_Witness ==
    /\ submitCalls = 2
    /\ ~loading /\ fetches = <<>>
    /\ result = Some(NoPlaceResult)
    /\ error = NULL

\* C20: loading is true exactly while a fetch started by submit() is
\* outstanding.
C20_LoadingIffOutstanding == loading <=> Len(fetches) > 0

C20_Witness ==
    /\ submitCalls = 2
    /\ ~loading /\ fetches = <<>>
    /\ error = Some(GuidanceMsg)
    /\ ~ButtonDisabled

====
